---- MODULE Spec2Model ----
(***************************************************************************)
(* Model of the Flask backend in src/ai-ds-website/app.py: four SQLite     *)
(* tables (contact_messages, faculty, achievements, gallery), the schema   *)
(* initializer init_db, the credential check and one action per route      *)
(* handler.  Each handler runs one SQL statement on its own connection,    *)
(* so a handler is one atomic step of the model.                           *)
(***************************************************************************)
EXTENDS Integers, Sequences, FiniteSets, TLC

(* ----------------------------- bounds --------------------------------- *)

\* Number of HTTP requests (plus process restarts) served in one behaviour.
MaxReq == 2

(* ------------------------- Python / JSON values ----------------------- *)

\* A JSON scalar as request.get_json() delivers it.  v is the text of the
\* value; JNull doubles as Python's None.
JNull == [t |-> "null", v |-> ""]

JStr(s) == [t |-> "str", v |-> s]

JBool(b) == [t |-> "bool", v |-> IF b THEN "true" ELSE "false"]

JNum(digits) == [t |-> "num", v |-> digits]

\* dict.get(key): None when the key is absent.
Get(data, key) == IF key \in DOMAIN data THEN data[key] ELSE JNull

\* dict.get(key, default): the default only when the key is absent.
GetDefault(data, key, default) == IF key \in DOMAIN data THEN data[key] ELSE default

\* Python truthiness of a JSON scalar.
Truthy(x) ==
  CASE x.t = "null" -> FALSE
    [] x.t = "bool" -> x.v = "true"
    [] x.t = "num"  -> x.v # "0"
    [] x.t = "str"  -> x.v # ""

(* ------------------------------ strings ------------------------------- *)

CharAt(s, i) == SubSeq(s, i, i)

Rest(s) == SubSeq(s, 2, Len(s))

IndexIn(c, s) ==
  IF \E i \in 1..Len(s) : CharAt(s, i) = c
  THEN CHOOSE i \in 1..Len(s) : CharAt(s, i) = c
  ELSE 0

UpperCase == "ABCDEFGHIJKLMNOPQRSTUVWXYZ"

LowerCase == "abcdefghijklmnopqrstuvwxyz"

Digits == "0123456789"

\* The byte of an ASCII character (UTF-8 encodes ASCII as itself), for the
\* characters that occur in the texts the model compares: runs of
\* consecutive characters with the byte of their first one.
AsciiRuns ==
  << <<"\t\n", 9>>, <<" ", 32>>, <<"-.", 45>>, <<Digits, 48>>, <<"@" \o UpperCase, 64>>,
     <<"_", 95>>, <<LowerCase, 97>> >>

AsciiTable ==
  [c \in UNION {{CharAt(AsciiRuns[r][1], i) : i \in 1..Len(AsciiRuns[r][1])} :
                 r \in 1..Len(AsciiRuns)} |->
     LET r == CHOOSE q \in 1..Len(AsciiRuns) : IndexIn(c, AsciiRuns[q][1]) > 0
     IN  AsciiRuns[r][2] + IndexIn(c, AsciiRuns[r][1]) - 1]

ord(c) == AsciiTable[c]

\* str.lower() on ASCII text.
lowerChar(c) ==
  IF IndexIn(c, UpperCase) > 0 THEN CharAt(LowerCase, IndexIn(c, UpperCase)) ELSE c

RECURSIVE lower(_)
lower(s) == IF s = "" THEN "" ELSE lowerChar(CharAt(s, 1)) \o lower(Rest(s))

isspace(c) == c \in {" ", "\t", "\n"}

RECURSIVE lstrip(_)
lstrip(s) == IF s # "" /\ isspace(CharAt(s, 1)) THEN lstrip(Rest(s)) ELSE s

RECURSIVE rstrip(_)
rstrip(s) ==
  IF s # "" /\ isspace(CharAt(s, Len(s))) THEN rstrip(SubSeq(s, 1, Len(s) - 1)) ELSE s

\* str.strip(): surrounding whitespace removed, inner whitespace kept.
strip(s) == rstrip(lstrip(s))

\* a and b agree before position i; a is smaller from there on.
RECURSIVE LessFrom(_, _, _)
LessFrom(a, b, i) ==
  IF i > Len(b) THEN FALSE
  ELSE IF i > Len(a) THEN TRUE
  ELSE IF CharAt(a, i) = CharAt(b, i) THEN LessFrom(a, b, i + 1)
  ELSE ord(CharAt(a, i)) < ord(CharAt(b, i))

\* SQLite's BINARY collation: memcmp of the two texts, a proper prefix first.
BinaryLess(a, b) == LessFrom(a, b, 1)

(* ------------------------------ SQLite -------------------------------- *)

\* A stored column value: NULL or a text.
SqlNull == [t |-> "null", v |-> ""]

SqlText(s) == [t |-> "text", v |-> s]

\* What a TEXT column stores for a bound Python value: None -> NULL, a str as
\* it is, an int or bool as the text of the integer (TEXT affinity).
TextColumn(x) ==
  CASE x.t = "null" -> SqlNull
    [] x.t = "str"  -> SqlText(x.v)
    [] x.t = "num"  -> SqlText(x.v)
    [] x.t = "bool" -> SqlText(IF x.v = "true" THEN "1" ELSE "0")

\* jsonify of a column read back through sqlite3.Row.
FromColumn(c) == IF c.t = "null" THEN JNull ELSE JStr(c.v)

\* bool(row['flag']) in the row-to-dict mapping of the list handlers.
FromFlag(n) == JBool(n # 0)

Tables == {"contact_messages", "faculty", "achievements", "gallery"}

\* The NOT NULL columns of the CREATE TABLE statements, in column order.
NotNullColumns ==
  [ contact_messages |-> <<"first_name", "last_name", "email", "subject", "message">>,
    faculty          |-> <<"name", "designation", "subject">>,
    achievements     |-> <<"title", "description">>,
    gallery          |-> <<"image_url", "caption">> ]

\* Tables with a column created_at TIMESTAMP DEFAULT CURRENT_TIMESTAMP.
HasCreatedAt(table) == table # "faculty"

\* A database file in which CREATE TABLE IF NOT EXISTS has just created the
\* four tables; sqlite_sequence holds the largest rowid each table ever used.
NewDatabase ==
  [ contact_messages |-> <<>>, faculty |-> <<>>, achievements |-> <<>>, gallery |-> <<>>,
    sqlite_sequence  |-> [tb \in Tables |-> 0] ]

\* Mutant of ConstraintFailed: the columns are declared without NOT NULL.
ConstraintFailed_None(table, values) == ""

\* The first NOT NULL column of the table to which values assigns NULL, or "".
ConstraintFailed(table, values) ==
  LET cols == NotNullColumns[table]
      bad  == {i \in 1..Len(cols) : cols[i] \in DOMAIN values /\ values[cols[i]].t = "null"}
  IN  IF bad = {} THEN ""
      ELSE cols[CHOOSE i \in bad : \A j \in bad : i <= j]

IntegrityError(table, column) == "NOT NULL constraint failed: " \o table \o "." \o column

\* Mutant of NextRowid: INTEGER PRIMARY KEY without AUTOINCREMENT, one more
\* than the largest rowid in the table now.
NextRowid_MaxPlusOne(database, table) ==
  LET rows == database[table]
  IN  IF rows = <<>> THEN 1
      ELSE 1 + CHOOSE m \in {rows[i].id : i \in 1..Len(rows)} :
                 \A i \in 1..Len(rows) : rows[i].id <= m

\* INTEGER PRIMARY KEY AUTOINCREMENT: one more than the largest rowid the
\* table has ever held, so the id of a deleted row is not given out again.
NextRowid(database, table) == database.sqlite_sequence[table] + 1

\* INSERT INTO table (...) VALUES (...) and commit at time clock.  Rows are
\* kept in rowid order, the order of a table scan.
INSERT(database, table, values, clock) ==
  LET col == ConstraintFailed(table, values)
      id  == NextRowid(database, table)
      row == IF HasCreatedAt(table)
             THEN [id |-> id, created_at |-> clock] @@ values
             ELSE [id |-> id] @@ values
  IN  IF col # ""
      THEN [ok |-> FALSE, error |-> IntegrityError(table, col), db |-> database, lastrowid |-> 0]
      ELSE [ok |-> TRUE, error |-> "",
            db |-> [database EXCEPT ![table] = Append(@, row),
                                    !.sqlite_sequence[table] = id],
            lastrowid |-> id]

\* Mutant of UPDATE: the statement has lost its WHERE clause.
UPDATE_NoWhere(database, table, values, id) ==
  LET col  == ConstraintFailed(table, values)
      rows == database[table]
  IN  IF rows # <<>> /\ col # ""
      THEN [ok |-> FALSE, error |-> IntegrityError(table, col), db |-> database]
      ELSE [ok |-> TRUE, error |-> "",
            db |-> [database EXCEPT ![table] = [i \in 1..Len(rows) |-> values @@ rows[i]]]]

\* Mutant of UPDATE: the row is deleted and inserted again, under a new rowid.
UPDATE_Reinsert(database, table, values, id) ==
  LET col   == ConstraintFailed(table, values)
      rows  == database[table]
      found == \E i \in 1..Len(rows) : rows[i].id = id
      old   == rows[CHOOSE i \in 1..Len(rows) : rows[i].id = id]
      fresh == NextRowid(database, table)
      Keep(r) == r.id # id
  IN  IF found /\ col # ""
      THEN [ok |-> FALSE, error |-> IntegrityError(table, col), db |-> database]
      ELSE IF ~found THEN [ok |-> TRUE, error |-> "", db |-> database]
      ELSE [ok |-> TRUE, error |-> "",
            db |-> [database EXCEPT
                      ![table] = Append(SelectSeq(@, Keep), values @@ [id |-> fresh] @@ old),
                      !.sqlite_sequence[table] = fresh]]

\* UPDATE table SET ... WHERE id = ? and commit: every row with that id (at
\* most one) takes the new values; with no such row nothing is checked or
\* changed and the statement still succeeds.
UPDATE(database, table, values, id) ==
  LET col   == ConstraintFailed(table, values)
      rows  == database[table]
      found == \E i \in 1..Len(rows) : rows[i].id = id
  IN  IF found /\ col # ""
      THEN [ok |-> FALSE, error |-> IntegrityError(table, col), db |-> database]
      ELSE [ok |-> TRUE, error |-> "",
            db |-> [database EXCEPT ![table] =
                      [i \in 1..Len(rows) |-> IF rows[i].id = id THEN values @@ rows[i]
                                               ELSE rows[i]]]]

\* DELETE FROM table WHERE id = ? and commit.
DELETE(database, table, id) ==
  LET Keep(r) == r.id # id
  IN  [database EXCEPT ![table] = SelectSeq(@, Keep)]

\* Mutant of SortsBefore: ORDER BY created_at ASC.
SortsBefore_Ascending(order, a, b) ==
  CASE order = "created_at DESC" -> a.created_at < b.created_at
    [] order = "is_hod DESC, name ASC" ->
         \/ a.is_hod > b.is_hod
         \/ a.is_hod = b.is_hod /\ BinaryLess(a.name.v, b.name.v)

\* Mutant of SortsBefore: ORDER BY name ASC alone for the faculty listing.
SortsBefore_NameOnly(order, a, b) ==
  CASE order = "created_at DESC" -> a.created_at > b.created_at
    [] order = "is_hod DESC, name ASC" -> BinaryLess(a.name.v, b.name.v)

\* a sorts strictly before b under the ORDER BY clause.
SortsBefore(order, a, b) ==
  CASE order = "created_at DESC" -> a.created_at > b.created_at
    [] order = "is_hod DESC, name ASC" ->
         \/ a.is_hod > b.is_hod
         \/ a.is_hod = b.is_hod /\ BinaryLess(a.name.v, b.name.v)

\* r placed into the sorted rows s, behind every row that does not sort after it.
RECURSIVE Place(_, _, _)
Place(s, r, order) ==
  IF s = <<>> THEN <<r>>
  ELSE IF SortsBefore(order, r, Head(s)) THEN <<r>> \o s
  ELSE <<Head(s)>> \o Place(Tail(s), r, order)

\* Insertion sort: rows with equal keys stay in the order given.
RECURSIVE SortRows(_, _)
SortRows(rows, order) ==
  IF rows = <<>> THEN <<>>
  ELSE Place(SortRows(SubSeq(rows, 1, Len(rows) - 1), order), rows[Len(rows)], order)

Reverse(rows) == [i \in 1..Len(rows) |-> rows[Len(rows) + 1 - i]]

\* SQL leaves the order of rows with equal sort keys open.  A sorter fed by a
\* table scan keeps them in rowid order ("scan"), a backward scan in reverse
\* rowid order ("reverse"); a listing may come out either way.
TieOrders == {"scan", "reverse"}

\* SELECT * FROM table [WHERE is_active = 1] ORDER BY order.
SELECT(rows, order, tie) ==
  IF tie = "scan" THEN SortRows(rows, order) ELSE SortRows(Reverse(rows), order)

ActiveRows(rows) ==
  LET Active(r) == r.is_active = 1
  IN  SelectSeq(rows, Active)

RECURSIVE executemany(_, _, _, _)
executemany(database, table, params, clock) ==
  IF params = <<>> THEN database
  ELSE executemany(INSERT(database, table, Head(params), clock).db, table, Tail(params), clock)

(* --------------------------- init_db ---------------------------------- *)

\* The trophy, the default icon, and the other sample icons are named by
\* their code points.
DefaultIcon == "U+1F3C6"

sample_gallery ==
  << <<"https://images.unsplash.com/photo-1540575467063-178a50c2df87?w=600", "Annual Tech Fest 2024 - Students showcasing AI projects", "2024-03-15">>,
     <<"https://images.unsplash.com/photo-1523580494863-6f3031224c94?w=600", "Industry Expert Guest Lecture on Machine Learning", "2024-02-20">>,
     <<"https://images.unsplash.com/photo-1559223607-a43c990c692c?w=600", "Hackathon Winners - Smart India Hackathon 2024", "2024-01-10">>,
     <<"https://images.unsplash.com/photo-1517245386807-bb43f82c33c4?w=600", "Workshop on Deep Learning and Neural Networks", "2024-02-05">>,
     <<"https://images.unsplash.com/photo-1531482615713-2afd69097998?w=600", "Placement Drive - Campus Recruitment 2024", "2024-01-25">>,
     <<"https://images.unsplash.com/photo-1552664730-d307ca884978?w=600", "Faculty Development Program on AI Ethics", "2024-02-28">> >>

sample_achievements ==
  << <<"U+1F3AF", "100% Placement", "All eligible students placed in top MNCs for 2024 batch", "placement", 1>>,
     <<"U+1F4BC", "Top Recruiters", "Google, Microsoft, Amazon, TCS, Infosys & more visiting campus", "placement", 1>>,
     <<"U+1F3C6", "Hackathon Champions", "Students won Smart India Hackathon 2024", "competition", 1>>,
     <<"U+1F4DA", "Research Excellence", "50+ papers published in international journals", "research", 1>>,
     <<"U+1F31F", "Industry Projects", "Live projects with IBM, Intel & Nvidia partnerships", "project", 1>>,
     <<"U+1F393", "Highest Package", "45 LPA offered by leading tech company", "placement", 1>> >>

sample_faculty ==
  << <<"Dr. Rajesh Kumar", "Head of Department & Professor", "Deep Learning & Neural Networks", "Dr. Rajesh Kumar has over 20 years of experience in AI research and education.", "rajesh.kumar@college.edu", 1>>,
     <<"Dr. Priya Sharma", "Associate Professor", "Machine Learning & Pattern Recognition", "Ph.D. from IISc Bangalore with expertise in ML algorithms.", "priya.sharma@college.edu", 0>>,
     <<"Dr. Amit Patel", "Associate Professor", "Natural Language Processing", "Expert in NLP with focus on sentiment analysis and language models.", "amit.patel@college.edu", 0>>,
     <<"Dr. Sneha Reddy", "Assistant Professor", "Computer Vision & Image Processing", "Specializes in image recognition and object detection algorithms.", "sneha.reddy@college.edu", 0>>,
     <<"Dr. Vikram Singh", "Assistant Professor", "Big Data Analytics", "Expert in distributed computing and large-scale data processing.", "vikram.singh@college.edu", 0>>,
     <<"Dr. Anita Verma", "Assistant Professor", "Data Mining & Warehousing", "Focuses on knowledge discovery from large datasets.", "anita.verma@college.edu", 0>>,
     <<"Prof. Dhanapathy", "Professor", "Artificial Neural Networks", "30+ years of teaching experience with expertise in neural networks.", "dhanapathy@college.edu", 0>>,
     <<"Dr. Kavita Nair", "Associate Professor", "Reinforcement Learning", "Research focuses on RL applications in robotics.", "kavita.nair@college.edu", 0>>,
     <<"Dr. Rahul Joshi", "Assistant Professor", "Statistical Learning & Probability", "Expert in probabilistic models and statistical inference.", "rahul.joshi@college.edu", 0>> >>

\* Mutant of init_db: the sample rows are inserted without the COUNT(*) test.
init_db_Unconditional(database, clock) ==
  LET galleryParams ==
        [i \in 1..Len(sample_gallery) |->
           [image_url  |-> SqlText(sample_gallery[i][1]),
            caption    |-> SqlText(sample_gallery[i][2]),
            event_date |-> SqlText(sample_gallery[i][3]),
            is_active  |-> 1]]
      achievementParams ==
        [i \in 1..Len(sample_achievements) |->
           [icon        |-> SqlText(sample_achievements[i][1]),
            title       |-> SqlText(sample_achievements[i][2]),
            description |-> SqlText(sample_achievements[i][3]),
            category    |-> SqlText(sample_achievements[i][4]),
            is_active   |-> sample_achievements[i][5]]]
      facultyParams ==
        [i \in 1..Len(sample_faculty) |->
           [name        |-> SqlText(sample_faculty[i][1]),
            designation |-> SqlText(sample_faculty[i][2]),
            subject     |-> SqlText(sample_faculty[i][3]),
            bio         |-> SqlText(sample_faculty[i][4]),
            email       |-> SqlText(sample_faculty[i][5]),
            is_hod      |-> sample_faculty[i][6]]]
      g == IF TRUE
           THEN executemany(database, "gallery", galleryParams, clock)
           ELSE database
      a == IF TRUE
           THEN executemany(g, "achievements", achievementParams, clock)
           ELSE g
  IN  IF TRUE
      THEN executemany(a, "faculty", facultyParams, clock)
      ELSE a

\* init_db at time clock: the CREATE TABLE IF NOT EXISTS statements change no
\* existing table; each of gallery, achievements and faculty gets its sample
\* rows when SELECT COUNT(*) finds it empty; one commit at the end.
init_db(database, clock) ==
  LET galleryParams ==
        [i \in 1..Len(sample_gallery) |->
           [image_url  |-> SqlText(sample_gallery[i][1]),
            caption    |-> SqlText(sample_gallery[i][2]),
            event_date |-> SqlText(sample_gallery[i][3]),
            is_active  |-> 1]]
      achievementParams ==
        [i \in 1..Len(sample_achievements) |->
           [icon        |-> SqlText(sample_achievements[i][1]),
            title       |-> SqlText(sample_achievements[i][2]),
            description |-> SqlText(sample_achievements[i][3]),
            category    |-> SqlText(sample_achievements[i][4]),
            is_active   |-> sample_achievements[i][5]]]
      facultyParams ==
        [i \in 1..Len(sample_faculty) |->
           [name        |-> SqlText(sample_faculty[i][1]),
            designation |-> SqlText(sample_faculty[i][2]),
            subject     |-> SqlText(sample_faculty[i][3]),
            bio         |-> SqlText(sample_faculty[i][4]),
            email       |-> SqlText(sample_faculty[i][5]),
            is_hod      |-> sample_faculty[i][6]]]
      g == IF Len(database.gallery) = 0
           THEN executemany(database, "gallery", galleryParams, clock)
           ELSE database
      a == IF Len(g.achievements) = 0
           THEN executemany(g, "achievements", achievementParams, clock)
           ELSE g
  IN  IF Len(a.faculty) = 0
      THEN executemany(a, "faculty", facultyParams, clock)
      ELSE a

(* ----------------------------- handlers ------------------------------- *)

\* A handler's outcome: the database after it, the HTTP status and the JSON body.
Reply(database, status, body) == [db |-> database, status |-> status, body |-> body]

Failure(message) == [success |-> FALSE, error |-> message]

\* Mutant of FirstMissing: the loop keeps going and reports the last field.
FirstMissing_Last(data, required_fields) ==
  LET bad == {i \in 1..Len(required_fields) : ~Truthy(Get(data, required_fields[i]))}
  IN  IF bad = {} THEN ""
      ELSE required_fields[CHOOSE i \in bad : \A j \in bad : j <= i]

\* The loop "for field in required_fields: if not data.get(field): return
\* 400": the first required field that is absent or falsy, or "".
FirstMissing(data, required_fields) ==
  LET bad == {i \in 1..Len(required_fields) : ~Truthy(Get(data, required_fields[i]))}
  IN  IF bad = {} THEN ""
      ELSE required_fields[CHOOSE i \in bad : \A j \in bad : i <= j]

\* Mutant of Flag: only the JSON value true sets the flag.
Flag_OnlyTrue(x) == IF x = JBool(TRUE) THEN 1 ELSE 0

\* 1 if <value> else 0
Flag(x) == IF Truthy(x) THEN 1 ELSE 0

\* The fixed in-memory credential table.
ADMIN_CREDENTIALS == [admin |-> "smvec2024", staff |-> "aidsstaff123"]

\* type(x).__name__ of a JSON scalar in Python.
TypeName(x) ==
  CASE x.t = "null" -> "NoneType"
    [] x.t = "bool" -> "bool"
    [] x.t = "num"  -> "int"
    [] x.t = "str"  -> "str"

\* Mutant of admin_login: the username is lower-cased but not trimmed.
admin_login_NoStrip(database, data) ==
  LET u == GetDefault(data, "username", JStr(""))
      password == GetDefault(data, "password", JStr(""))
      username == lower(u.v)
  IN  IF u.t # "str"
      THEN Reply(database, 500, Failure("'" \o TypeName(u) \o "' object has no attribute 'strip'"))
      ELSE IF username \in DOMAIN ADMIN_CREDENTIALS
              /\ JStr(ADMIN_CREDENTIALS[username]) = password
      THEN Reply(database, 200,
                 [success |-> TRUE, message |-> "Login successful", user |-> username])
      ELSE Reply(database, 401, Failure("Invalid username or password"))

\* POST /api/login.  A username that is no string has no strip(): the
\* AttributeError is caught and reported as 500.
admin_login(database, data) ==
  LET u == GetDefault(data, "username", JStr(""))
      password == GetDefault(data, "password", JStr(""))
      username == lower(strip(u.v))
  IN  IF u.t # "str"
      THEN Reply(database, 500, Failure("'" \o TypeName(u) \o "' object has no attribute 'strip'"))
      ELSE IF username \in DOMAIN ADMIN_CREDENTIALS
              /\ JStr(ADMIN_CREDENTIALS[username]) = password
      THEN Reply(database, 200,
                 [success |-> TRUE, message |-> "Login successful", user |-> username])
      ELSE Reply(database, 401, Failure("Invalid username or password"))

\* Mutant of submit_contact: the row is inserted before the fields are checked.
submit_contact_InsertFirst(database, data, clock) ==
  LET field == FirstMissing(data, <<"firstName", "lastName", "email", "subject", "message">>)
      r == INSERT(database, "contact_messages",
                  [first_name |-> TextColumn(Get(data, "firstName")),
                   last_name  |-> TextColumn(Get(data, "lastName")),
                   email      |-> TextColumn(Get(data, "email")),
                   phone      |-> TextColumn(GetDefault(data, "phone", JStr(""))),
                   subject    |-> TextColumn(Get(data, "subject")),
                   message    |-> TextColumn(Get(data, "message")),
                   newsletter |-> Flag(Get(data, "newsletter"))],
                  clock)
  IN  IF ~r.ok THEN Reply(database, 500, Failure(r.error))
      ELSE IF field # "" THEN Reply(r.db, 400, Failure(field \o " is required"))
      ELSE Reply(r.db, 201,
                 [success |-> TRUE,
                  message |-> "Your message has been received! We will get back to you soon.",
                  id |-> r.lastrowid])

\* Mutant of submit_contact: newsletter defaults to true when omitted.
submit_contact_OptOut(database, data, clock) ==
  LET field == FirstMissing(data, <<"firstName", "lastName", "email", "subject", "message">>)
      r == INSERT(database, "contact_messages",
                  [first_name |-> TextColumn(data["firstName"]),
                   last_name  |-> TextColumn(data["lastName"]),
                   email      |-> TextColumn(data["email"]),
                   phone      |-> TextColumn(GetDefault(data, "phone", JStr(""))),
                   subject    |-> TextColumn(data["subject"]),
                   message    |-> TextColumn(data["message"]),
                   newsletter |-> Flag(GetDefault(data, "newsletter", JBool(TRUE)))],
                  clock)
  IN  IF field # "" THEN Reply(database, 400, Failure(field \o " is required"))
      ELSE IF ~r.ok THEN Reply(database, 500, Failure(r.error))
      ELSE Reply(r.db, 201,
                 [success |-> TRUE,
                  message |-> "Your message has been received! We will get back to you soon.",
                  id |-> r.lastrowid])

\* POST /api/contact.
submit_contact(database, data, clock) ==
  LET field == FirstMissing(data, <<"firstName", "lastName", "email", "subject", "message">>)
      r == INSERT(database, "contact_messages",
                  [first_name |-> TextColumn(data["firstName"]),
                   last_name  |-> TextColumn(data["lastName"]),
                   email      |-> TextColumn(data["email"]),
                   phone      |-> TextColumn(GetDefault(data, "phone", JStr(""))),
                   subject    |-> TextColumn(data["subject"]),
                   message    |-> TextColumn(data["message"]),
                   newsletter |-> Flag(Get(data, "newsletter"))],
                  clock)
  IN  IF field # "" THEN Reply(database, 400, Failure(field \o " is required"))
      ELSE IF ~r.ok THEN Reply(database, 500, Failure(r.error))
      ELSE Reply(r.db, 201,
                 [success |-> TRUE,
                  message |-> "Your message has been received! We will get back to you soon.",
                  id |-> r.lastrowid])

\* The dict built for each row of GET /api/contact.
ContactRecord(msg) ==
  [id |-> msg.id, firstName |-> FromColumn(msg.first_name),
   lastName |-> FromColumn(msg.last_name), email |-> FromColumn(msg.email),
   phone |-> FromColumn(msg.phone), subject |-> FromColumn(msg.subject),
   message |-> FromColumn(msg.message), newsletter |-> FromFlag(msg.newsletter),
   createdAt |-> msg.created_at]

Listing(result) == [success |-> TRUE, data |-> result, count |-> Len(result)]

\* GET /api/contact.
ContactRecords(messages) == [i \in 1..Len(messages) |-> ContactRecord(messages[i])]

get_contacts(database, tie) ==
  Reply(database, 200,
        Listing(ContactRecords(SELECT(database.contact_messages, "created_at DESC", tie))))

\* The dict built for a faculty row.
FacultyRecord(member) ==
  [id |-> member.id, name |-> FromColumn(member.name),
   designation |-> FromColumn(member.designation), subject |-> FromColumn(member.subject),
   bio |-> FromColumn(member.bio), email |-> FromColumn(member.email),
   isHod |-> FromFlag(member.is_hod)]

\* GET /api/faculty.
FacultyRecords(faculty) == [i \in 1..Len(faculty) |-> FacultyRecord(faculty[i])]

get_faculty(database, tie) ==
  Reply(database, 200,
        Listing(FacultyRecords(SELECT(database.faculty, "is_hod DESC, name ASC", tie))))

\* Mutant of get_faculty_by_id: no check of fetchone()'s result, a missing
\* row is answered with 200 and no data.
get_faculty_by_id_Unchecked(database, faculty_id) ==
  LET rows == database.faculty
      hit  == {i \in 1..Len(rows) : rows[i].id = faculty_id}
  IN  IF hit = {} THEN Reply(database, 200, [success |-> TRUE, data |-> JNull])
      ELSE Reply(database, 200,
                 [success |-> TRUE, data |-> FacultyRecord(rows[CHOOSE i \in hit : TRUE])])

\* GET /api/faculty/<id>.
get_faculty_by_id(database, faculty_id) ==
  LET rows == database.faculty
      hit  == {i \in 1..Len(rows) : rows[i].id = faculty_id}
  IN  IF hit = {} THEN Reply(database, 404, Failure("Faculty member not found"))
      ELSE Reply(database, 200,
                 [success |-> TRUE, data |-> FacultyRecord(rows[CHOOSE i \in hit : TRUE])])

\* The column values the faculty INSERT and UPDATE bind.
FacultyValues(data) ==
  [name        |-> TextColumn(Get(data, "name")),
   designation |-> TextColumn(Get(data, "designation")),
   subject     |-> TextColumn(Get(data, "subject")),
   bio         |-> TextColumn(GetDefault(data, "bio", JStr(""))),
   email       |-> TextColumn(GetDefault(data, "email", JStr(""))),
   is_hod      |-> Flag(Get(data, "isHod"))]

\* POST /api/faculty.
add_faculty(database, data) ==
  LET field == FirstMissing(data, <<"name", "designation", "subject">>)
      r == INSERT(database, "faculty", FacultyValues(data), 0)
  IN  IF field # "" THEN Reply(database, 400, Failure(field \o " is required"))
      ELSE IF ~r.ok THEN Reply(database, 500, Failure(r.error))
      ELSE Reply(r.db, 201,
                 [success |-> TRUE, message |-> "Faculty member added successfully!",
                  id |-> r.lastrowid])

\* Mutant of update_faculty: a field the body omits keeps its stored value.
update_faculty_KeepOmitted(database, faculty_id, data) ==
  LET rows   == database.faculty
      found  == \E i \in 1..Len(rows) : rows[i].id = faculty_id
      stored == rows[CHOOSE i \in 1..Len(rows) : rows[i].id = faculty_id]
      Field  == [name |-> "name", designation |-> "designation", subject |-> "subject",
                 bio |-> "bio", email |-> "email", is_hod |-> "isHod"]
      values == [k \in DOMAIN FacultyValues(data) |->
                   IF found /\ Field[k] \notin DOMAIN data THEN stored[k]
                   ELSE FacultyValues(data)[k]]
      r == UPDATE(database, "faculty", values, faculty_id)
  IN  IF ~r.ok THEN Reply(database, 500, Failure(r.error))
      ELSE Reply(r.db, 200,
                 [success |-> TRUE, message |-> "Faculty member updated successfully!"])

\* PUT /api/faculty/<id>.
update_faculty(database, faculty_id, data) ==
  LET r == UPDATE(database, "faculty", FacultyValues(data), faculty_id)
  IN  IF ~r.ok THEN Reply(database, 500, Failure(r.error))
      ELSE Reply(r.db, 200,
                 [success |-> TRUE, message |-> "Faculty member updated successfully!"])

\* DELETE /api/faculty/<id>.
delete_faculty(database, faculty_id) ==
  Reply(DELETE(database, "faculty", faculty_id), 200,
        [success |-> TRUE, message |-> "Faculty member deleted successfully!"])

\* Mutant of ShowAll: any value of the all parameter asks for every row.
ShowAll_Present(args) == "all" \in DOMAIN args

\* request.args.get('all', 'false').lower() == 'true'
ShowAll(args) == lower(IF "all" \in DOMAIN args THEN args["all"] ELSE "false") = "true"

\* The dict built for each achievements row.
AchievementRecord(ach) ==
  [id |-> ach.id, icon |-> FromColumn(ach.icon), title |-> FromColumn(ach.title),
   description |-> FromColumn(ach.description), category |-> FromColumn(ach.category),
   isActive |-> FromFlag(ach.is_active), createdAt |-> ach.created_at]

\* GET /api/achievements.
AchievementRecords(achievements) ==
  [i \in 1..Len(achievements) |-> AchievementRecord(achievements[i])]

get_achievements(database, args, tie) ==
  Reply(database, 200,
        Listing(AchievementRecords(
          IF ShowAll(args) THEN SELECT(database.achievements, "created_at DESC", tie)
          ELSE SELECT(ActiveRows(database.achievements), "created_at DESC", tie))))

\* Mutant of AchievementValues: title and description bound to each other's
\* placeholder.
AchievementValues_Swapped(data) ==
  [icon        |-> TextColumn(GetDefault(data, "icon", JStr(DefaultIcon))),
   title       |-> TextColumn(Get(data, "description")),
   description |-> TextColumn(Get(data, "title")),
   category    |-> TextColumn(GetDefault(data, "category", JStr("general"))),
   is_active   |-> Flag(GetDefault(data, "isActive", JBool(TRUE)))]

\* The column values the achievements INSERT and UPDATE bind.
AchievementValues(data) ==
  [icon        |-> TextColumn(GetDefault(data, "icon", JStr(DefaultIcon))),
   title       |-> TextColumn(Get(data, "title")),
   description |-> TextColumn(Get(data, "description")),
   category    |-> TextColumn(GetDefault(data, "category", JStr("general"))),
   is_active   |-> Flag(GetDefault(data, "isActive", JBool(TRUE)))]

\* POST /api/achievements.
add_achievement(database, data, clock) ==
  LET r == INSERT(database, "achievements", AchievementValues(data), clock)
  IN  IF ~Truthy(Get(data, "title")) \/ ~Truthy(Get(data, "description"))
      THEN Reply(database, 400, Failure("Title and description are required"))
      ELSE IF ~r.ok THEN Reply(database, 500, Failure(r.error))
      ELSE Reply(r.db, 201,
                 [success |-> TRUE, message |-> "Achievement added successfully!",
                  id |-> r.lastrowid])

\* PUT /api/achievements/<id>.
update_achievement(database, ach_id, data) ==
  LET r == UPDATE(database, "achievements", AchievementValues(data), ach_id)
  IN  IF ~r.ok THEN Reply(database, 500, Failure(r.error))
      ELSE Reply(r.db, 200,
                 [success |-> TRUE, message |-> "Achievement updated successfully!"])

\* DELETE /api/achievements/<id>.
delete_achievement(database, ach_id) ==
  Reply(DELETE(database, "achievements", ach_id), 200,
        [success |-> TRUE, message |-> "Achievement deleted successfully!"])

\* The dict built for each gallery row.
GalleryRecord(img) ==
  [id |-> img.id, imageUrl |-> FromColumn(img.image_url), caption |-> FromColumn(img.caption),
   eventDate |-> FromColumn(img.event_date), isActive |-> FromFlag(img.is_active),
   createdAt |-> img.created_at]

\* GET /api/gallery.
GalleryRecords(images) == [i \in 1..Len(images) |-> GalleryRecord(images[i])]

get_gallery(database, args, tie) ==
  Reply(database, 200,
        Listing(GalleryRecords(
          IF ShowAll(args) THEN SELECT(database.gallery, "created_at DESC", tie)
          ELSE SELECT(ActiveRows(database.gallery), "created_at DESC", tie))))

\* The column values the gallery INSERT and UPDATE bind.
GalleryValues(data) ==
  [image_url  |-> TextColumn(Get(data, "imageUrl")),
   caption    |-> TextColumn(Get(data, "caption")),
   event_date |-> TextColumn(GetDefault(data, "eventDate", JStr(""))),
   is_active  |-> Flag(GetDefault(data, "isActive", JBool(TRUE)))]

\* POST /api/gallery.
add_gallery(database, data, clock) ==
  LET r == INSERT(database, "gallery", GalleryValues(data), clock)
  IN  IF ~Truthy(Get(data, "imageUrl")) \/ ~Truthy(Get(data, "caption"))
      THEN Reply(database, 400, Failure("Image URL and caption are required"))
      ELSE IF ~r.ok THEN Reply(database, 500, Failure(r.error))
      ELSE Reply(r.db, 201,
                 [success |-> TRUE, message |-> "Gallery image added successfully!",
                  id |-> r.lastrowid])

\* PUT /api/gallery/<id>.
update_gallery(database, img_id, data) ==
  LET r == UPDATE(database, "gallery", GalleryValues(data), img_id)
  IN  IF ~r.ok THEN Reply(database, 500, Failure(r.error))
      ELSE Reply(r.db, 200,
                 [success |-> TRUE, message |-> "Gallery image updated successfully!"])

\* DELETE /api/gallery/<id>.
delete_gallery(database, img_id) ==
  Reply(DELETE(database, "gallery", img_id), 200,
        [success |-> TRUE, message |-> "Gallery image deleted successfully!"])

(* ------------------------------ state --------------------------------- *)

VARIABLES
  db,     \* the database file department.db
  now,    \* CURRENT_TIMESTAMP, in whole seconds since the first start
  nreq,   \* requests served so far
  last,   \* the latest request and the response it got
  calls   \* the requests in the hands of the server's threads

vars == <<db, now, nreq, last, calls>>

\* The threads that serve requests at the same time.
Clients == {1, 2}

\* A thread with no request.
Idle == [stage |-> "idle"]

\* A request without a JSON body or query string.
NoData == [k \in {} |-> JNull]

Request(op, id, data, r) ==
  [op |-> op, id |-> id, data |-> data, status |-> r.status, body |-> r.body]

\* The process has started on a new database file: init_db has run once.
Init ==
  /\ db = init_db(NewDatabase, 0)
  /\ now = 0
  /\ nreq = 0
  /\ last = [op |-> "init_db", id |-> 0, data |-> NoData, status |-> 0,
             body |-> [success |-> TRUE, message |-> "Database initialized successfully!"]]
  /\ calls = [c \in Clients |-> Idle]

(* --------------------------- request inputs --------------------------- *)

ContactPayloads ==
  { [firstName |-> JStr("John"), lastName |-> JStr("Doe"), email |-> JStr("john@example.com"),
     phone |-> JStr("1234567890"), subject |-> JStr("admission"),
     message |-> JStr("I want to know about..."), newsletter |-> JBool(TRUE)],
    [firstName |-> JStr("Jane"), lastName |-> JStr("Doe"), email |-> JStr("jane@x.com"),
     subject |-> JStr("admission"), message |-> JStr("Hi")],
    [firstName |-> JStr("Jane"), email |-> JStr("jane@x.com"), message |-> JStr("")],
    [firstName |-> JStr(""), lastName |-> JStr("Doe"), email |-> JStr("jane@x.com"),
     subject |-> JStr("admission"), message |-> JStr("Hi"), newsletter |-> JNum("1")] }

FacultyPayloads ==
  { [name |-> JStr("Ann"), designation |-> JStr("Professor"), subject |-> JStr("Robotics"),
     bio |-> JStr("Works on robots."), email |-> JStr("ann@college.edu"), isHod |-> JBool(TRUE)],
    [name |-> JStr("bob"), designation |-> JStr("Lecturer"), subject |-> JStr("Statistics")],
    [name |-> JStr("Eve"), designation |-> JStr("Professor"), subject |-> JStr("Vision"),
     bio |-> JNull, isHod |-> JNum("1")],
    [name |-> JStr("Ann"), designation |-> JStr(""), isHod |-> JBool(FALSE)] }

AchievementPayloads ==
  { [icon |-> JStr("U+1F4DA"), title |-> JStr("Best Paper"), description |-> JStr("Award at a conference"),
     category |-> JStr("research"), isActive |-> JBool(TRUE)],
    [title |-> JStr("Grant"), description |-> JStr("Funding received")],
    [title |-> JStr("Draft"), description |-> JStr("Not yet public"), isActive |-> JBool(FALSE)],
    [icon |-> JNull, title |-> JStr("Rank"), description |-> JStr("Top ten"), isActive |-> JStr("no")],
    [title |-> JStr("Grant"), category |-> JStr("research")] }

GalleryPayloads ==
  { [imageUrl |-> JStr("https://example.com/a.jpg"), caption |-> JStr("Sports day"),
     eventDate |-> JStr("2024-04-01"), isActive |-> JBool(TRUE)],
    [imageUrl |-> JStr("https://example.com/b.jpg"), caption |-> JStr("Lab visit")],
    [imageUrl |-> JStr("https://example.com/c.jpg"), caption |-> JStr("Rehearsal"),
     isActive |-> JBool(FALSE)],
    [imageUrl |-> JStr(""), caption |-> JStr("Sports day"), isActive |-> JNum("0")],
    [imageUrl |-> JStr("https://example.com/d.jpg"), caption |-> JStr("Seminar"),
     isActive |-> JNull],
    [imageUrl |-> JStr("https://example.com/e.jpg"), caption |-> JStr("Alumni meet"),
     isActive |-> JStr("")] }

LoginPayloads ==
  { [username |-> JStr("admin"), password |-> JStr("smvec2024")],
    [username |-> JStr("ADMIN"), password |-> JStr("smvec2024")],
    [username |-> JStr("  Staff\t"), password |-> JStr("aidsstaff123")],
    [username |-> JStr("admin"), password |-> JStr("wrong")],
    [username |-> JStr("admin"), password |-> JStr("SMVEC2024")],
    [username |-> JStr("staff"), password |-> JStr("aidsstaff123 ")],
    [username |-> JStr("staff"), password |-> JStr("smvec2024")],
    [username |-> JStr("ad min"), password |-> JStr("smvec2024")],
    [password |-> JStr("smvec2024")],
    [username |-> JStr("admin")],
    [username |-> JNull, password |-> JStr("smvec2024")] }

\* Query strings of the list requests.
QueryArgs == { NoData, [all |-> "true"], [all |-> "TRUE"], [all |-> "1"] }

\* Ids a request names: the newest id the table has given out (a sample row,
\* a row a request has added, or one deleted since) and the next id, which
\* no row has had yet.
TargetIds(table) == {db.sqlite_sequence[table], db.sqlite_sequence[table] + 1}

(* ------------------------------ actions ------------------------------- *)

Serve(op, id, data, r) ==
  /\ nreq < MaxReq
  /\ db' = r.db
  /\ last' = Request(op, id, data, r)
  /\ nreq' = nreq + 1
  /\ now' = now
  /\ calls' = calls

\* A second passes.  Rows inserted between two ticks share their created_at.
\* Only the order of the timestamps is observable, so a second in which no
\* row is inserted is not told apart from the next one: the clock moves on
\* only while some row carries the current second.
Tick ==
  /\ nreq < MaxReq
  /\ \E tb \in Tables \ {"faculty"} : \E i \in 1..Len(db[tb]) : db[tb][i].created_at = now
  /\ now' = now + 1
  /\ UNCHANGED <<db, nreq, last, calls>>

\* The process is stopped and started again: init_db runs on the existing file.
Restart ==
  Serve("init_db", 0, NoData,
        Reply(init_db(db, now), 0,
              [success |-> TRUE, message |-> "Database initialized successfully!"]))

AdminLogin == \E data \in LoginPayloads : Serve("admin_login", 0, data, admin_login(db, data))

SubmitContact ==
  \E data \in ContactPayloads : Serve("submit_contact", 0, data, submit_contact(db, data, now))

GetContacts == \E tie \in TieOrders : Serve("get_contacts", 0, NoData, get_contacts(db, tie))

GetFaculty == \E tie \in TieOrders : Serve("get_faculty", 0, NoData, get_faculty(db, tie))

GetFacultyById ==
  \E id \in TargetIds("faculty") : Serve("get_faculty_by_id", id, NoData, get_faculty_by_id(db, id))

AddFaculty == \E data \in FacultyPayloads : Serve("add_faculty", 0, data, add_faculty(db, data))

UpdateFaculty ==
  \E id \in TargetIds("faculty"), data \in FacultyPayloads :
    Serve("update_faculty", id, data, update_faculty(db, id, data))

DeleteFaculty ==
  \E id \in TargetIds("faculty") : Serve("delete_faculty", id, NoData, delete_faculty(db, id))

GetAchievements ==
  \E args \in QueryArgs, tie \in TieOrders :
    Serve("get_achievements", 0, args, get_achievements(db, args, tie))

AddAchievement ==
  \E data \in AchievementPayloads :
    Serve("add_achievement", 0, data, add_achievement(db, data, now))

UpdateAchievement ==
  \E id \in TargetIds("achievements"), data \in AchievementPayloads :
    Serve("update_achievement", id, data, update_achievement(db, id, data))

DeleteAchievement ==
  \E id \in TargetIds("achievements") :
    Serve("delete_achievement", id, NoData, delete_achievement(db, id))

GetGallery ==
  \E args \in QueryArgs, tie \in TieOrders :
    Serve("get_gallery", 0, args, get_gallery(db, args, tie))

AddGallery ==
  \E data \in GalleryPayloads : Serve("add_gallery", 0, data, add_gallery(db, data, now))

UpdateGallery ==
  \E id \in TargetIds("gallery"), data \in GalleryPayloads :
    Serve("update_gallery", id, data, update_gallery(db, id, data))

DeleteGallery ==
  \E id \in TargetIds("gallery") : Serve("delete_gallery", id, NoData, delete_gallery(db, id))

Next ==
  \/ Tick
  \/ Restart
  \/ AdminLogin
  \/ SubmitContact
  \/ GetContacts
  \/ GetFaculty
  \/ GetFacultyById
  \/ AddFaculty
  \/ UpdateFaculty
  \/ DeleteFaculty
  \/ GetAchievements
  \/ AddAchievement
  \/ UpdateAchievement
  \/ DeleteAchievement
  \/ GetGallery
  \/ AddGallery
  \/ UpdateGallery
  \/ DeleteGallery

Spec == Init /\ [][Next]_vars

(* ---------------------- restarts on emptied tables -------------------- *)

\* DELETE requests for every row of a table, one after the other.
RECURSIVE DeleteAll(_, _)
DeleteAll(database, table) ==
  IF database[table] = <<>> THEN database
  ELSE DeleteAll(DELETE(database, table, database[table][1].id), table)

\* The stores the administrator leaves by deleting all rows of some of the
\* three seeded tables.
EmptiedStores ==
  LET seeded == init_db(NewDatabase, 0)
      Without(database, table, gone) == IF gone THEN DeleteAll(database, table) ELSE database
  IN  {Without(Without(Without(seeded, "gallery", g), "achievements", a), "faculty", f) :
         g \in BOOLEAN, a \in BOOLEAN, f \in BOOLEAN}

InitEmptied ==
  /\ db \in EmptiedStores
  /\ now = 0
  /\ nreq = 0
  /\ last = [op |-> "delete", id |-> 0, data |-> NoData, status |-> 200,
             body |-> [success |-> TRUE, message |-> "deleted"]]
  /\ calls = [c \in Clients |-> Idle]

\* The requests that write, the clock and the restart.
NextEmptied ==
  \/ Tick
  \/ Restart
  \/ SubmitContact
  \/ AddFaculty
  \/ DeleteFaculty
  \/ AddAchievement
  \/ DeleteAchievement
  \/ AddGallery
  \/ DeleteGallery

SpecEmptied == InitEmptied /\ [][NextEmptied]_vars

(* ------------------------ requests at the same time ------------------- *)

\* The handlers that write, as the threads run them.
Handle(op, database, id, data, clock) ==
  CASE op = "add_faculty"     -> add_faculty(database, data)
    [] op = "update_faculty"  -> update_faculty(database, id, data)
    [] op = "add_achievement" -> add_achievement(database, data, clock)

\* The requests a thread may get.
Arrivals ==
  {[op |-> "add_faculty", id |-> 0, data |-> data] : data \in FacultyPayloads}
    \cup {[op |-> "update_faculty", id |-> id, data |-> data] :
            id \in TargetIds("faculty"), data \in FacultyPayloads}
    \cup {[op |-> "add_achievement", id |-> 0, data |-> data] : data \in AchievementPayloads}

Responded(call, status, body) ==
  [stage |-> "responded", op |-> call.op, id |-> call.id, data |-> call.data,
   status |-> status, body |-> body]

\* Mutant of LockFree: the file has no write lock.
LockFree_Always(c) == TRUE

\* SQLite lets one connection at a time hold the write lock of the file.
\* No other thread is between its statement and the end of its transaction.
LockFree(c) == \A d \in Clients \ {c} : calls[d].stage # "executed"

\* request.get_json() and the checks ahead of get_db_connection(): a create
\* with a missing field is answered 400 at once.
Arrive(c) ==
  /\ nreq < MaxReq
  /\ calls[c].stage \in {"idle", "responded"}
  /\ \E a \in Arrivals :
       LET r == Handle(a.op, db, a.id, a.data, now)
       IN  IF r.status = 400
           THEN /\ calls' = [calls EXCEPT ![c] = Responded(a, r.status, r.body)]
                /\ last' = Request(a.op, a.id, a.data, r)
           ELSE /\ calls' = [calls EXCEPT ![c] = [stage |-> "arrived", op |-> a.op,
                                                  id |-> a.id, data |-> a.data]]
                /\ last' = last
  /\ nreq' = nreq + 1
  /\ UNCHANGED <<db, now>>

\* cursor.execute(...): the connection begins a transaction, takes the write
\* lock and runs the statement on the file as it is now; nothing is visible
\* to other connections before the commit.
Execute(c) ==
  /\ calls[c].stage = "arrived"
  /\ LockFree(c)
  /\ calls' = [calls EXCEPT ![c] =
                 [stage |-> "executed", op |-> @.op, id |-> @.id, data |-> @.data,
                  r |-> Handle(@.op, db, @.id, @.data, now)]]
  /\ UNCHANGED <<db, now, nreq, last>>

\* conn.commit() and the response; after a failed statement the except
\* branch answers 500 and the connection is dropped with nothing written.
Commit(c) ==
  /\ calls[c].stage = "executed"
  /\ db' = calls[c].r.db
  /\ calls' = [calls EXCEPT ![c] = Responded(@, @.r.status, @.r.body)]
  /\ last' = Request(calls[c].op, calls[c].id, calls[c].data, calls[c].r)
  /\ UNCHANGED <<now, nreq>>

\* sqlite3.connect(DATABASE) waits five seconds for the write lock; when
\* another connection holds it for longer, execute raises OperationalError
\* and the except branch answers 500.
Timeout(c) ==
  /\ calls[c].stage = "arrived"
  /\ ~LockFree(c)
  /\ calls' = [calls EXCEPT ![c] = Responded(@, 500, Failure("database is locked"))]
  /\ last' = Request(calls[c].op, calls[c].id, calls[c].data,
                     Reply(db, 500, Failure("database is locked")))
  /\ UNCHANGED <<db, now, nreq>>

NextConcurrent ==
  \/ \E c \in Clients : Arrive(c)
  \/ \E c \in Clients : Execute(c)
  \/ \E c \in Clients : Commit(c)
  \/ \E c \in Clients : Timeout(c)
  \/ Tick
  \/ GetFaculty

SpecConcurrent == Init /\ [][NextConcurrent]_vars

(* ------------------------- vocabulary of the claims ------------------- *)

\* The latest step served a request (Tick serves none).
Served == nreq' = nreq + 1

CreateOps == {"submit_contact", "add_faculty", "add_achievement", "add_gallery"}

\* The mandatory fields of each entity, in the order it declares them.
Mandatory(op) ==
  CASE op \in {"submit_contact"} -> <<"firstName", "lastName", "email", "subject", "message">>
    [] op \in {"add_faculty", "update_faculty"} -> <<"name", "designation", "subject">>
    [] op \in {"add_achievement", "update_achievement"} -> <<"title", "description">>
    [] op \in {"add_gallery", "update_gallery"} -> <<"imageUrl", "caption">>

AbsentOrEmpty(data, field) == field \notin DOMAIN data \/ data[field] = JStr("")

\* The mandatory fields the payload lacks, as positions in the declared order.
Lacking(op, data) == {i \in 1..Len(Mandatory(op)) : AbsentOrEmpty(data, Mandatory(op)[i])}

FirstLacking(op, data) ==
  Mandatory(op)[CHOOSE i \in Lacking(op, data) : \A j \in Lacking(op, data) : i <= j]

Rejected400 == last.status = 400 /\ last.body.success = FALSE

(* ------------------------------- C1 ----------------------------------- *)

C2_RejectedCreateChangesNothing ==
  [][(Served /\ last'.op \in CreateOps /\ last'.status = 400)
       => /\ db' = db
          /\ \A tie \in TieOrders :
               /\ get_contacts(db', tie).body = get_contacts(db, tie).body
               /\ get_faculty(db', tie).body = get_faculty(db, tie).body]_vars

\* A faculty create lacking a field was refused while the tables held rows.
C2_Witness ==
  /\ last.op = "add_faculty"
  /\ Rejected400
  /\ nreq = 2
  /\ Len(db.faculty) > 0

(* ------------------------------- C3 ----------------------------------- *)

EntityCreates == {"add_faculty", "add_achievement", "add_gallery"}

TableOf(op) ==
  CASE op \in {"get_faculty", "get_faculty_by_id", "add_faculty", "update_faculty",
               "delete_faculty"} -> "faculty"
    [] op \in {"get_achievements", "add_achievement", "update_achievement",
               "delete_achievement"} -> "achievements"
    [] op \in {"get_gallery", "add_gallery", "update_gallery", "delete_gallery"} -> "gallery"
    [] op \in {"get_contacts", "submit_contact"} -> "contact_messages"

TextFields ==
  {"name", "designation", "subject", "bio", "email", "icon", "title", "description",
   "category", "imageUrl", "caption", "eventDate"}

FlagFields == {"isHod", "isActive"}

\* A payload as section 6 describes it: the mandatory fields non-empty
\* strings, every other text field a string and the flag a JSON boolean where
\* they are present.
ValidPayload(op, data) ==
  /\ Lacking(op, data) = {}
  /\ \A k \in DOMAIN data :
       /\ k \in TextFields => data[k].t = "str"
       /\ k \in FlagFields => data[k].t = "bool"

\* The record carries every submitted value.
Echoes(record, data) == \A k \in DOMAIN data : record[k] = data[k]

\* The listing holds a record with that id and the submitted values.
Found(body, id, data) ==
  \E i \in 1..Len(body.data) : body.data[i].id = id /\ Echoes(body.data[i], data)

HasRow(rows, id) == \E i \in 1..Len(rows) : rows[i].id = id

\* After a valid create: 201, and the listings of the collection with a query
\* string of queries (and GET /api/faculty/{id}) return the submitted record.
RoundTrip(queries) ==
  (last.op \in EntityCreates /\ ValidPayload(last.op, last.data)) =>
    /\ last.status = 201
    /\ last.body.success = TRUE
    /\ HasRow(db[TableOf(last.op)], last.body.id)
    /\ \A tie \in TieOrders :
         CASE last.op = "add_faculty" ->
                /\ Found(get_faculty(db, tie).body, last.body.id, last.data)
                /\ get_faculty_by_id(db, last.body.id).status = 200
                /\ get_faculty_by_id(db, last.body.id).body.data.id = last.body.id
                /\ Echoes(get_faculty_by_id(db, last.body.id).body.data, last.data)
           [] last.op = "add_achievement" ->
                \A args \in queries :
                  Found(get_achievements(db, args, tie).body, last.body.id, last.data)
           [] last.op = "add_gallery" ->
                \A args \in queries :
                  Found(get_gallery(db, args, tie).body, last.body.id, last.data)

\* The query strings that ask for every row: all=true in any letter case.
AllTrueArgs == {args \in QueryArgs : "all" \in DOMAIN args /\ args["all"] \in {"true", "TRUE"}}

\* C3 as stated: after a valid create every listing of the collection,
\* whatever its query string, returns the submitted record.
C3_AsStated == RoundTrip(QueryArgs)

\* The default listing (no all=true) returns the new record exactly when the
\* row is active.
DefaultListingShowsActive ==
  (last.op \in {"add_achievement", "add_gallery"} /\ ValidPayload(last.op, last.data)) =>
    \A tie \in TieOrders, args \in QueryArgs \ AllTrueArgs :
      LET body == IF last.op = "add_achievement" THEN get_achievements(db, args, tie).body
                  ELSE get_gallery(db, args, tie).body
      IN  Found(body, last.body.id, last.data)
            <=> GetDefault(last.data, "isActive", JBool(TRUE)) = JBool(TRUE)

\* A row stays as it is in every step that is not a PUT or DELETE on its id.
KeptUnlessTargeted ==
  \A tb \in {"faculty", "achievements", "gallery"} :
    \A i \in 1..Len(db[tb]) :
      \/ /\ Served
         /\ last'.op \in {"update_faculty", "delete_faculty", "update_achievement",
                          "delete_achievement", "update_gallery", "delete_gallery"}
         /\ TableOf(last'.op) = tb
         /\ last'.id = db[tb][i].id
      \/ \E j \in 1..Len(db'[tb]) : db'[tb][j] = db[tb][i]

\* C3, amended: a valid Faculty, Achievement or Gallery create returns 201
\* with the id of the new row; GET /api/faculty, GET /api/faculty/{id} and the
\* achievements and gallery listings with all=true then return a record with
\* that id whose fields equal the submitted values, for as long as no PUT or
\* DELETE names that id; the listings without all=true return it exactly
\* when the row is active.
C3_RoundTrip ==
  /\ [](RoundTrip(AllTrueArgs) /\ DefaultListingShowsActive)
  /\ [][/\ (Served /\ last'.op \in EntityCreates /\ last'.status = 201)
            => ~HasRow(db[TableOf(last'.op)], last'.body.id)
        /\ KeptUnlessTargeted]_vars

\* A later listing with all=true shows the inactive achievement a request created.
C3_Witness ==
  /\ last.op = "get_achievements"
  /\ last.data \in AllTrueArgs
  /\ \E i \in 1..Len(last.body.data) :
       /\ last.body.data[i].id = 7
       /\ last.body.data[i].title = JStr("Draft")
       /\ last.body.data[i].isActive = JBool(FALSE)

(* ------------------------------- C4 ----------------------------------- *)

ListedIds(body) == {body.data[i].id : i \in 1..Len(body.data)}

RowWithId(rows, id) == rows[CHOOSE i \in 1..Len(rows) : rows[i].id = id]

\* C4: an achievements or gallery listing without all=true returns exactly
\* the rows whose is_active flag is set, one with all=true (in any letter
\* case) returns every row, active or not; each row appears once, with its
\* flag, and count is the number of rows returned.
C4_ActiveFilter ==
  last.op \in {"get_achievements", "get_gallery"} =>
    LET rows == db[TableOf(last.op)]
        data == last.body.data
    IN  /\ last.status = 200
        /\ last.body.success = TRUE
        /\ last.body.count = Len(data)
        /\ Cardinality(ListedIds(last.body)) = Len(data)
        /\ ListedIds(last.body) =
             IF last.data \in AllTrueArgs
             THEN {rows[i].id : i \in 1..Len(rows)}
             ELSE {rows[i].id : i \in {k \in 1..Len(rows) : rows[k].is_active = 1}}
        /\ \A i \in 1..Len(data) :
             data[i].isActive = JBool(RowWithId(rows, data[i].id).is_active = 1)

\* Both kinds of listing were served while the table held an inactive row.
C4_Witness ==
  /\ last.op = "get_gallery"
  /\ last.data \notin AllTrueArgs
  /\ \E i \in 1..Len(db.gallery) : db.gallery[i].is_active = 0
  /\ last.body.count = Len(db.gallery) - 1

(* ------------------------------- C5 ----------------------------------- *)

TimeOrderedLists == {"get_achievements", "get_gallery", "get_contacts"}

\* C5 as stated: of any two rows of a response, the one inserted later (the
\* one with the larger id) comes first.
C5_AsStated ==
  last.op \in TimeOrderedLists =>
    \A i, j \in 1..Len(last.body.data) :
      i < j => last.body.data[i].id > last.body.data[j].id

\* C5, amended: the listings are ordered by createdAt descending: of any two
\* rows of a response with different createdAt values, the one inserted later
\* comes first; rows inserted within the same second have the same createdAt
\* and come in either order.
C5_NewestTimestampFirst ==
  last.op \in TimeOrderedLists =>
    \A i, j \in 1..Len(last.body.data) :
      i < j =>
        /\ last.body.data[i].createdAt >= last.body.data[j].createdAt
        /\ last.body.data[i].createdAt # last.body.data[j].createdAt
             => last.body.data[i].id > last.body.data[j].id

\* A listing held rows of two different seconds, and two rows of one second.
C5_Witness ==
  /\ last.op = "get_gallery"
  /\ \E i, j \in 1..Len(last.body.data) :
       i < j /\ last.body.data[i].createdAt > last.body.data[j].createdAt
  /\ \E i, j \in 1..Len(last.body.data) :
       i < j /\ last.body.data[i].createdAt = last.body.data[j].createdAt

(* ------------------------------- C6 ----------------------------------- *)

\* C6: GET /api/faculty returns every faculty row exactly once, every row
\* with isHod true before every row with isHod false, and rows with the same
\* flag in ascending (byte-wise) order of name.
C6_FacultyOrder ==
  last.op = "get_faculty" =>
    LET data == last.body.data
    IN  /\ Len(data) = Len(db.faculty)
        /\ ListedIds(last.body) = {db.faculty[i].id : i \in 1..Len(db.faculty)}
        /\ \A i, j \in 1..Len(data) :
             i < j =>
               /\ data[j].isHod = JBool(TRUE) => data[i].isHod = JBool(TRUE)
               /\ data[i].isHod = data[j].isHod => ~BinaryLess(data[j].name.v, data[i].name.v)

\* After a create the listing held two heads of department, in order of
\* name, ahead of the other rows.
C6_Witness ==
  /\ last.op = "get_faculty"
  /\ Len(last.body.data) = 10
  /\ last.body.data[1].name = JStr("Ann")
  /\ last.body.data[1].isHod = JBool(TRUE)
  /\ last.body.data[2].isHod = JBool(TRUE)
  /\ last.body.data[10].isHod = JBool(FALSE)

(* ------------------------------- C7 ----------------------------------- *)

\* The records GET /api/contact can return for a database.
ContactsOf(database) ==
  UNION {{get_contacts(database, tie).body.data[i] :
            i \in 1..Len(get_contacts(database, tie).body.data)} : tie \in TieOrders}

\* The record of the message the latest request submitted.
Submitted(record) ==
  /\ record.id = last.body.id
  /\ \A k \in {"firstName", "lastName", "email", "subject", "message"} :
       last.data[k].t = "str" => record[k] = last.data[k]
  /\ GetDefault(last.data, "phone", JStr("")).t = "str"
       => record.phone = GetDefault(last.data, "phone", JStr(""))
  /\ "newsletter" \notin DOMAIN last.data => record.newsletter = JBool(FALSE)
  /\ GetDefault(last.data, "newsletter", JNull).t = "bool"
       => record.newsletter = last.data["newsletter"]

\* C7: when POST /api/contact has returned 201 with an id, GET /api/contact
\* returns a record with that id, the submitted strings and the submitted
\* newsletter flag (false when it was omitted); no request on any endpoint, and no restart, changes
\* or removes a record GET /api/contact returns; and the response of GET
\* /api/contact holds exactly those records.
C7_ContactImmutable ==
  /\ []((last.op = "submit_contact" /\ last.status = 201)
          => \E record \in ContactsOf(db) : Submitted(record))
  /\ [](last.op = "get_contacts"
          => /\ {last.body.data[i] : i \in 1..Len(last.body.data)} = ContactsOf(db)
             /\ Len(last.body.data) = Len(db.contact_messages))
  /\ [][ContactsOf(db) \subseteq ContactsOf(db')]_vars

\* A listing showed, unchanged, the message an earlier request had submitted
\* without a newsletter field.
C7_Witness ==
  /\ last.op = "get_contacts"
  /\ nreq = 2
  /\ \E i \in 1..Len(last.body.data) :
       /\ last.body.data[i].id = 1
       /\ last.body.data[i].firstName = JStr("Jane")
       /\ last.body.data[i].message = JStr("Hi")
       /\ last.body.data[i].newsletter = JBool(FALSE)

(* ------------------------------- C8 ----------------------------------- *)

Whitespace(s, from, to) == \A k \in from..to : isspace(CharAt(s, k))

SameLetter(c, d) ==
  \/ c = d
  \/ IndexIn(c, UpperCase) > 0 /\ IndexIn(c, UpperCase) = IndexIn(d, LowerCase)

\* s is key, in any letter case, between runs of whitespace.
Names(s, key) ==
  \E i \in 1..Len(s) + 1 :
    /\ i + Len(key) - 1 <= Len(s)
    /\ Whitespace(s, 1, i - 1)
    /\ Whitespace(s, i + Len(key), Len(s))
    /\ \A k \in 1..Len(key) : SameLetter(CharAt(s, i + k - 1), CharAt(key, k))

\* The fixed credential table of section 4.4.
Accounts == {<<"admin", "smvec2024">>, <<"staff", "aidsstaff123">>}

\* C8: a login whose username is a string (or absent, read as "") returns 200
\* success with the matched username exactly when the username, trimmed and
\* lower-cased, is one of the two keys and the password is exactly that key's
\* password, and 401 otherwise; no login changes the database, so the answer
\* is the same after any earlier requests.
C8_Login ==
  /\ []((last.op = "admin_login" /\ GetDefault(last.data, "username", JStr("")).t = "str")
          => LET username == GetDefault(last.data, "username", JStr("")).v
                 password == GetDefault(last.data, "password", JStr(""))
                 match == {a \in Accounts : Names(username, a[1]) /\ password = JStr(a[2])}
             IN  IF match # {}
                 THEN /\ last.status = 200
                      /\ last.body.success = TRUE
                      /\ \E a \in match : last.body.user = a[1]
                 ELSE /\ last.status = 401
                      /\ last.body.success = FALSE)
  /\ [][(Served /\ last'.op = "admin_login") => db' = db]_vars

\* A padded, mixed-case username was accepted after an earlier request.
C8_Witness ==
  /\ last.op = "admin_login"
  /\ nreq = 2
  /\ Get(last.data, "username") = JStr("  Staff\t")
  /\ last.status = 200
  /\ last.body.user = "staff"

(* ------------------------------- C9 ----------------------------------- *)

Updates == {"update_faculty", "update_achievement", "update_gallery"}

Deletes == {"delete_faculty", "delete_achievement", "delete_gallery"}

\* The DELETE handler of a table.
DeleteOf(table, database, id) ==
  CASE table = "faculty"      -> delete_faculty(database, id)
    [] table = "achievements" -> delete_achievement(database, id)
    [] table = "gallery"      -> delete_gallery(database, id)

\* C9: a PUT or DELETE on an id without a row returns 200 success and leaves
\* the database as it was; a DELETE on an existing id returns 200 success,
\* removes that row and nothing else, and the same DELETE once more returns
\* the same response and leaves the state it finds.
C9_MissingIdAndDelete ==
  [][(Served /\ last'.op \in Updates \cup Deletes) =>
       LET table == TableOf(last'.op)
           rows  == db[table]
           Other(r) == r.id # last'.id
           again == DeleteOf(table, db', last'.id)
       IN  IF ~HasRow(rows, last'.id)
           THEN /\ last'.status = 200
                /\ last'.body.success = TRUE
                /\ db' = db
           ELSE last'.op \in Deletes =>
                  /\ last'.status = 200
                  /\ last'.body.success = TRUE
                  /\ db' = [db EXCEPT ![table] = SelectSeq(rows, Other)]
                  /\ Len(db'[table]) = Len(rows) - 1
                  /\ again.db = db'
                  /\ again.status = last'.status
                  /\ again.body = last'.body]_vars

\* A DELETE was served for faculty row 9, and the table holds the eight
\* other rows.
C9_Witness ==
  /\ last.op = "delete_faculty"
  /\ nreq = 2
  /\ last.id = 9
  /\ last.status = 200
  /\ Len(db.faculty) = 8
  /\ ~HasRow(db.faculty, 9)

(* ------------------------------- C10 ---------------------------------- *)

\* C10: GET /api/faculty/{id} returns 404 with success=false and the error
\* "Faculty member not found" exactly when the faculty table holds no row
\* with that id, and otherwise 200 with the id and the current fields of
\* that row.
C10_FacultyById ==
  last.op = "get_faculty_by_id" =>
    IF ~HasRow(db.faculty, last.id)
    THEN /\ last.status = 404
         /\ last.body = [success |-> FALSE, error |-> "Faculty member not found"]
    ELSE LET row == RowWithId(db.faculty, last.id)
         IN  /\ last.status = 200
             /\ last.body.success = TRUE
             /\ last.body.data.id = last.id
             /\ last.body.data.name = FromColumn(row.name)
             /\ last.body.data.designation = FromColumn(row.designation)
             /\ last.body.data.subject = FromColumn(row.subject)
             /\ last.body.data.bio = FromColumn(row.bio)
             /\ last.body.data.email = FromColumn(row.email)
             /\ last.body.data.isHod = JBool(row.is_hod = 1)

\* A row that had been deleted was asked for.
C10_Witness ==
  /\ last.op = "get_faculty_by_id"
  /\ last.id = 9
  /\ nreq = 2
  /\ last.status = 404

(* ------------------------------- C11 ---------------------------------- *)

SeededTables == {"gallery", "achievements", "faculty"}

\* The rows of the table are the fixed sample rows, in their order, with
\* ids ids the table had not used and the defaults of the schema.
HoldsSamples(rows, table, firstId, clock) ==
  CASE table = "gallery" ->
         /\ Len(rows) = 6
         /\ \A i \in 1..6 :
              rows[i] = [id |-> firstId + i - 1, created_at |-> clock,
                         image_url  |-> SqlText(sample_gallery[i][1]),
                         caption    |-> SqlText(sample_gallery[i][2]),
                         event_date |-> SqlText(sample_gallery[i][3]),
                         is_active  |-> 1]
    [] table = "achievements" ->
         /\ Len(rows) = 6
         /\ \A i \in 1..6 :
              rows[i] = [id |-> firstId + i - 1, created_at |-> clock,
                         icon        |-> SqlText(sample_achievements[i][1]),
                         title       |-> SqlText(sample_achievements[i][2]),
                         description |-> SqlText(sample_achievements[i][3]),
                         category    |-> SqlText(sample_achievements[i][4]),
                         is_active   |-> sample_achievements[i][5]]
    [] table = "faculty" ->
         /\ Len(rows) = 9
         /\ Cardinality({i \in 1..9 : rows[i].is_hod = 1}) = 1
         /\ \A i \in 1..9 :
              rows[i] = [id |-> firstId + i - 1,
                         name        |-> SqlText(sample_faculty[i][1]),
                         designation |-> SqlText(sample_faculty[i][2]),
                         subject     |-> SqlText(sample_faculty[i][3]),
                         bio         |-> SqlText(sample_faculty[i][4]),
                         email       |-> SqlText(sample_faculty[i][5]),
                         is_hod      |-> sample_faculty[i][6]]

\* C11: a run of init_db gives each of gallery, achievements and faculty that
\* is empty when the run starts its 6, 6 and 9 sample rows (one faculty row
\* with isHod), leaves every table that holds a row and contact_messages as
\* they are, and a second run right after it, in the same second or a later
\* one, changes nothing.
C11_InitDbIdempotent ==
  [][(Served /\ last'.op = "init_db") =>
       /\ db'.contact_messages = db.contact_messages
       /\ \A tb \in SeededTables :
            IF db[tb] = <<>>
            THEN HoldsSamples(db'[tb], tb, db.sqlite_sequence[tb] + 1, now)
            ELSE /\ db'[tb] = db[tb]
                 /\ db'.sqlite_sequence[tb] = db.sqlite_sequence[tb]
       /\ init_db(db', now) = db'
       /\ init_db(db', now + 1) = db']_vars

\* A restart found the gallery empty and the faculty table changed by a
\* request: the gallery got the samples again, under new ids, and the
\* faculty table kept its ten rows.
C11_Witness ==
  /\ last.op = "init_db"
  /\ nreq = 2
  /\ Len(db.gallery) = 6
  /\ db.gallery[1].id = 7
  /\ Len(db.faculty) = 10
  /\ Len(db.achievements) = 6
  /\ db.achievements[1].id = 1

(* ------------------------------- C12 ---------------------------------- *)

\* The JSON scalars that count as false.
Falsy == {JNull, JBool(FALSE), JNum("0"), JStr("")}

FlagOf(op) ==
  CASE TableOf(op) = "contact_messages" -> [field |-> "newsletter", column |-> "newsletter", default |-> 0]
    [] TableOf(op) = "faculty"          -> [field |-> "isHod", column |-> "is_hod", default |-> 0]
    [] TableOf(op) = "achievements"     -> [field |-> "isActive", column |-> "is_active", default |-> 1]
    [] TableOf(op) = "gallery"          -> [field |-> "isActive", column |-> "is_active", default |-> 1]

\* What the table's listing of every row returns.
ListAll(table, database, tie) ==
  CASE table = "contact_messages" -> get_contacts(database, tie).body
    [] table = "faculty"          -> get_faculty(database, tie).body
    [] table = "achievements"     -> get_achievements(database, [all |-> "true"], tie).body
    [] table = "gallery"          -> get_gallery(database, [all |-> "true"], tie).body

\* The latest request wrote a row: a create answered 201, or a PUT answered
\* 200 on an id that has a row.
Wrote ==
  \/ last.op \in CreateOps /\ last.status = 201
  \/ last.op \in Updates /\ last.status = 200 /\ HasRow(db[TableOf(last.op)], last.id)

WrittenId == IF last.op \in CreateOps THEN last.body.id ELSE last.id

\* C12: after a create or an update the flag column of the written row is 1
\* when the submitted value is truthy and 0 when it is falsy (null, false, 0
\* or ""); when the field is omitted it is 0 for newsletter and isHod and 1
\* for isActive; and every listing reads the column back as true or false.
C12_FlagNormalised ==
  /\ Wrote =>
       LET flag   == FlagOf(last.op)
           stored == RowWithId(db[TableOf(last.op)], WrittenId)[flag.column]
           body   == ListAll(TableOf(last.op), db, "scan")
       IN  /\ stored = IF flag.field \notin DOMAIN last.data THEN flag.default
                       ELSE IF last.data[flag.field] \in Falsy THEN 0 ELSE 1
           /\ \E i \in 1..Len(body.data) :
                /\ body.data[i].id = WrittenId
                /\ body.data[i][flag.field] = JBool(stored = 1)
  /\ last.op \in {"get_contacts", "get_faculty", "get_achievements", "get_gallery"} =>
       \A i \in 1..Len(last.body.data) :
         last.body.data[i][FlagOf(last.op).field] \in {JBool(TRUE), JBool(FALSE)}
  /\ (last.op = "get_faculty_by_id" /\ last.status = 200) =>
       last.body.data.isHod \in {JBool(TRUE), JBool(FALSE)}

\* A PUT wrote the number 0 as isActive; the row is stored inactive.
C12_Witness ==
  /\ last.op = "update_gallery"
  /\ last.status = 200
  /\ Get(last.data, "isActive") = JNum("0")
  /\ HasRow(db.gallery, last.id)
  /\ RowWithId(db.gallery, last.id).is_active = 0

(* ------------------------------- C13 ---------------------------------- *)

Dated == {"achievements", "gallery"}

\* C13: an achievements or gallery row that a step does not delete is, after
\* the step, still the one row with its id and has the created_at it had,
\* whatever the step was (a PUT on it, a request on another row or table, a
\* restart); and every listing shows each row with its stored created_at.
C13_CreatedAtFixed ==
  /\ [][\A tb \in Dated : \A i \in 1..Len(db[tb]) :
          \/ /\ Served
             /\ last'.op \in Deletes
             /\ TableOf(last'.op) = tb
             /\ last'.id = db[tb][i].id
          \/ /\ Cardinality({j \in 1..Len(db'[tb]) : db'[tb][j].id = db[tb][i].id}) = 1
             /\ RowWithId(db'[tb], db[tb][i].id).created_at = db[tb][i].created_at]_vars
  /\ [](last.op \in {"get_achievements", "get_gallery"} =>
          \A i \in 1..Len(last.body.data) :
            last.body.data[i].createdAt =
              RowWithId(db[TableOf(last.op)], last.body.data[i].id).created_at)

\* A PUT rewrote, a second after its insertion, the gallery row a request had
\* created; the row still carries the second of its insertion.
C13_Witness ==
  /\ last.op = "update_gallery"
  /\ last.status = 200
  /\ last.id = 7
  /\ now = 1
  /\ HasRow(db.gallery, 7)
  /\ RowWithId(db.gallery, 7).created_at = 0
  /\ RowWithId(db.gallery, 7).caption = SqlText("Lab visit")

(* ------------------------------- C14 ---------------------------------- *)

\* The column values a request binds.
ValuesOf(call) ==
  IF TableOf(call.op) = "faculty" THEN FacultyValues(call.data)
  ELSE AchievementValues(call.data)

Answered(c) == calls[c].stage = "responded"

\* Two requests have been answered that were PUTs on the same id, or creates
\* on the same table that passed the check of their mandatory fields.
BothPuts(c, d) ==
  /\ c # d /\ Answered(c) /\ Answered(d)
  /\ calls[c].op = "update_faculty" /\ calls[d].op = "update_faculty"
  /\ calls[c].id = calls[d].id
  /\ HasRow(db.faculty, calls[c].id)
  /\ 200 \in {calls[c].status, calls[d].status}

BothCreates(c, d) ==
  /\ c # d /\ Answered(c) /\ Answered(d)
  /\ calls[c].op \in CreateOps /\ calls[d].op = calls[c].op
  /\ calls[c].status # 400 /\ calls[d].status # 400

\* C14 as stated: after two PUTs on one id the row is the field set of one
\* of them, and two creates on one table have both persisted, under two
\* different ids, each the id of the row with that request's values.
C14_AsStated ==
  \A c, d \in Clients :
    /\ BothPuts(c, d) =>
         \E e \in {c, d} :
           RowWithId(db.faculty, calls[e].id) = ValuesOf(calls[e]) @@ [id |-> calls[e].id]
    /\ BothCreates(c, d) =>
         /\ calls[c].status = 201 /\ calls[d].status = 201
         /\ calls[c].body.id # calls[d].body.id
         /\ \A e \in {c, d} : HasRow(db[TableOf(calls[e].op)], calls[e].body.id)

\* The step ends the transaction of thread c and answers its request.
Commits(c) == calls[c].stage = "executed" /\ calls'[c].stage = "responded"

\* The step is the whole handler of the request of thread c, run on the
\* file as the step finds it, with a timestamp that has passed.
AsIfAlone(c) ==
  \E t \in 0..now :
    LET r == Handle(calls[c].op, db, calls[c].id, calls[c].data, t)
    IN  /\ db' = r.db
        /\ calls'[c].status = r.status
        /\ calls'[c].body = r.body

\* C14, amended: every write takes effect at its commit as if its handler
\* ran alone at that moment, so the writes are serial: a PUT that returns 200
\* on an existing id leaves the row with the complete field set of that
\* request, a create that returns 201 adds one row, with that request's
\* values and an id no row of the table had, and changes no other row, and
\* two creates that return 201 return different ids; a request that finds
\* the write lock taken for longer than the connection waits is answered
\* 500 and writes nothing.
C14_Serial ==
  /\ [][\A c \in Clients :
          /\ Commits(c) =>
               LET call  == calls[c]
                   table == TableOf(call.op)
                   reply == calls'[c]
               IN  /\ AsIfAlone(c)
                   /\ \A tb \in Tables \ {table} : db'[tb] = db[tb]
                   /\ (call.op = "update_faculty" /\ reply.status = 200
                         /\ HasRow(db.faculty, call.id)) =>
                        /\ RowWithId(db'.faculty, call.id) = ValuesOf(call) @@ [id |-> call.id]
                        /\ \A i \in 1..Len(db.faculty) :
                             db.faculty[i].id # call.id => db'.faculty[i] = db.faculty[i]
                   /\ (call.op \in CreateOps /\ reply.status = 201) =>
                        /\ ~HasRow(db[table], reply.body.id)
                        /\ Len(db'[table]) = Len(db[table]) + 1
                        /\ SubSeq(db'[table], 1, Len(db[table])) = db[table]
                        /\ \A k \in DOMAIN ValuesOf(call) :
                             RowWithId(db'[table], reply.body.id)[k] = ValuesOf(call)[k]
                   /\ reply.status \notin {200, 201} => db' = db
          /\ (calls[c].stage = "arrived" /\ calls'[c].stage = "responded") =>
               /\ db' = db
               /\ calls'[c].status = 500
               /\ calls'[c].body = [success |-> FALSE, error |-> "database is locked"]]_vars
  /\ [](\A c, d \in Clients :
          (BothCreates(c, d) /\ calls[c].status = 201 /\ calls[d].status = 201)
            => calls[c].body.id # calls[d].body.id)

\* Two creates on the faculty table, in the hands of two threads, have both
\* been answered 201: the rows are there under the ids 10 and 11.
C14_Witness ==
  /\ BothCreates(1, 2)
  /\ calls[1].op = "add_faculty"
  /\ calls[1].data # calls[2].data
  /\ calls[1].status = 201
  /\ calls[2].status = 201
  /\ {calls[1].body.id, calls[2].body.id} = {10, 11}
  /\ Len(db.faculty) = 11
  /\ RowWithId(db.faculty, calls[1].body.id).name = TextColumn(calls[1].data["name"])
  /\ RowWithId(db.faculty, calls[2].body.id).name = TextColumn(calls[2].data["name"])

(* ------------------------------- C15 ---------------------------------- *)

\* The largest id the table has given out so far, deleted rows included:
\* what SQLite keeps in sqlite_sequence for an AUTOINCREMENT table.
Assigned(database, table) == database.sqlite_sequence[table]

\* C15: in every table the ids of the rows are pairwise different and none
\* is above the largest id given out so far; that largest id never goes
\* down, whatever is deleted; and the id a successful create returns is
\* above it, so above every id the table has ever given out, and is the id
\* of the new row.
C15_IdsNeverReused ==
  /\ [](\A tb \in Tables :
          /\ \A i, j \in 1..Len(db[tb]) : i # j => db[tb][i].id # db[tb][j].id
          /\ \A i \in 1..Len(db[tb]) : db[tb][i].id <= Assigned(db, tb))
  /\ [][\A tb \in Tables :
          /\ Assigned(db', tb) >= Assigned(db, tb)
          /\ (Served /\ last'.op \in CreateOps /\ last'.status = 201
                /\ TableOf(last'.op) = tb) =>
               /\ last'.body.id > Assigned(db, tb)
               /\ \A i \in 1..Len(db[tb]) : db[tb][i].id < last'.body.id
               /\ HasRow(db'[tb], last'.body.id)
               /\ Assigned(db', tb) = last'.body.id]_vars

\* The faculty row with the largest id, 9, was deleted, and the create that
\* followed returned 10, not 9 again.
C15_Witness ==
  /\ last.op = "add_faculty"
  /\ last.status = 201
  /\ last.body.id = 10
  /\ Len(db.faculty) = 9
  /\ ~HasRow(db.faculty, 9)

(* ------------------------------- C16 ---------------------------------- *)

\* The mutable fields of each entity: the JSON field, its column, and the
\* value the column takes when the body omits the field.
MutableText(table) ==
  CASE table = "faculty" ->
         {<<"name", "name", SqlNull>>, <<"designation", "designation", SqlNull>>,
          <<"subject", "subject", SqlNull>>, <<"bio", "bio", SqlText("")>>,
          <<"email", "email", SqlText("")>>}
    [] table = "achievements" ->
         {<<"icon", "icon", SqlText("U+1F3C6")>>, <<"title", "title", SqlNull>>,
          <<"description", "description", SqlNull>>,
          <<"category", "category", SqlText("general")>>}
    [] table = "gallery" ->
         {<<"imageUrl", "image_url", SqlNull>>, <<"caption", "caption", SqlNull>>,
          <<"eventDate", "event_date", SqlText("")>>}

\* C16: a PUT answered 200 on an id that has a row leaves that row with its
\* id (and created_at), with every text field the body gives taken from the
\* body, every optional field the body omits at its default (bio, email and
\* eventDate "", icon the trophy, category "general"), and the flag 1 for a
\* truthy value, 0 for a falsy one and, omitted, 0 for isHod and 1 for
\* isActive; all other rows and tables stay as they are.
C16_PutOverwrites ==
  [][(Served /\ last'.op \in Updates /\ last'.status = 200
        /\ HasRow(db[TableOf(last'.op)], last'.id)) =>
       LET table == TableOf(last'.op)
           data  == last'.data
           flag  == FlagOf(last'.op)
           old   == RowWithId(db[table], last'.id)
           new   == RowWithId(db'[table], last'.id)
       IN  /\ Len(db'[table]) = Len(db[table])
           /\ \A i \in 1..Len(db[table]) :
                db[table][i].id # last'.id => db'[table][i] = db[table][i]
           /\ \A tb \in Tables \ {table} : db'[tb] = db[tb]
           /\ db'.sqlite_sequence = db.sqlite_sequence
           /\ new.id = old.id
           /\ table \in Dated => new.created_at = old.created_at
           /\ \A f \in MutableText(table) :
                new[f[2]] = IF f[1] \in DOMAIN data
                            THEN (IF data[f[1]].t = "null" THEN SqlNull
                                  ELSE SqlText(data[f[1]].v))
                            ELSE f[3]
           /\ new[flag.column] = IF flag.field \notin DOMAIN data THEN flag.default
                                 ELSE IF data[flag.field] \in Falsy THEN 0 ELSE 1]_vars

\* A PUT with the three mandatory fields alone rewrote the sample row 9:
\* its bio and email are now empty.
C16_Witness ==
  /\ last.op = "update_faculty"
  /\ last.status = 200
  /\ last.id = 9
  /\ DOMAIN last.data = {"name", "designation", "subject"}
  /\ HasRow(db.faculty, 9)
  /\ RowWithId(db.faculty, 9).name = SqlText("bob")
  /\ RowWithId(db.faculty, 9).bio = SqlText("")
  /\ RowWithId(db.faculty, 9).email = SqlText("")
  /\ RowWithId(db.faculty, 9).is_hod = 0

(* ------------------------------- C17 ---------------------------------- *)

\* The mandatory fields of each entity with their columns.
MandatoryColumns(table) ==
  CASE table = "contact_messages" ->
         {<<"firstName", "first_name">>, <<"lastName", "last_name">>, <<"email", "email">>,
          <<"subject", "subject">>, <<"message", "message">>}
    [] table = "faculty" ->
         {<<"name", "name">>, <<"designation", "designation">>, <<"subject", "subject">>}
    [] table = "achievements" -> {<<"title", "title">>, <<"description", "description">>}
    [] table = "gallery" -> {<<"imageUrl", "image_url">>, <<"caption", "caption">>}

\* The mandatory fields the body omits.
Omitted(table, data) == {f \in MandatoryColumns(table) : f[1] \notin DOMAIN data}

\* C17: a PUT on an id that has a row, with a body that omits a mandatory
\* field, is answered 500 with success=false and the store's NOT NULL error
\* for one of the omitted fields, and changes nothing; and in every
\* reachable state no row has NULL in a mandatory column.
C17_PutMissingMandatory ==
  /\ [][(Served /\ last'.op \in Updates /\ HasRow(db[TableOf(last'.op)], last'.id)
           /\ Omitted(TableOf(last'.op), last'.data) # {}) =>
          /\ last'.status = 500
          /\ last'.body.success = FALSE
          /\ \E f \in Omitted(TableOf(last'.op), last'.data) :
               last'.body.error =
                 "NOT NULL constraint failed: " \o TableOf(last'.op) \o "." \o f[2]
          /\ db' = db]_vars
  /\ [](\A tb \in Tables : \A i \in 1..Len(db[tb]) :
          \A f \in MandatoryColumns(tb) : db[tb][i][f[2]].t = "text")

\* A PUT without description on the sample achievement 6 was answered 500;
\* the row is as it was.
C17_Witness ==
  /\ last.op = "update_achievement"
  /\ last.id = 6
  /\ last.status = 500
  /\ "description" \notin DOMAIN last.data
  /\ last.body.error = "NOT NULL constraint failed: achievements.description"
  /\ RowWithId(db.achievements, 6).title = SqlText("Highest Package")

====
